---- MODULE Spec2Model ----
(***************************************************************************)
(* A model of the LLDP receiver: the capture loop of example.py, the frame *)
(* check and TLV walk of LLDP.decode (server.py) and the TLV decoders of   *)
(* tlvs.py.  Bytes are integers 0..255, a bytes object is a sequence of    *)
(* them, a Python dict is a record and a raised exception is a value       *)
(* [ok |-> FALSE, err |-> ...] that the caller propagates.                  *)
(***************************************************************************)
EXTENDS Integers, Sequences, FiniteSets, TLC

VARIABLES pc, data, lldp_frame, handed, printed, decoded_data, outcome

vars == <<pc, data, lldp_frame, handed, printed, decoded_data, outcome>>

(***************************************************************************)
(* Bounds of the input space.                                              *)
(***************************************************************************)
\* TLVs placed before the TLV under study in a generated payload
MaxBefore == 1
\* TLVs placed after the TLV under study in a generated payload
MaxAfter == 1
\* bytes that may be cut off the end of a generated payload
MaxCut == 2
\* length of the payloads enumerated byte by byte
MaxRawLen == 2

(***************************************************************************)
(* Python values.                                                          *)
(***************************************************************************)
Ok(v) == [ok |-> TRUE, val |-> v]

Raise(type, site) == [ok |-> FALSE, err |-> [type |-> type, site |-> site]]

\* Python's None
None == [none |-> TRUE]

Min(a, b) == IF a < b THEN a ELSE b

Max(a, b) == IF a > b THEN a ELSE b

\* s[a:b] on bytes, 0 <= a, 0 <= b: the indices are clipped to len(s)
Slice(s, a, b) ==
    LET lo == Min(a, Len(s))
        hi == Min(b, Len(s))
    IN  IF hi <= lo THEN <<>> ELSE SubSeq(s, lo + 1, hi)

\* s[a:]
SliceFrom(s, a) == Slice(s, a, Len(s))

\* str(b) of a bytes object: its repr, b'...'
str_bytes(b) == [repr |-> "b'", bytes |-> b]

HexDigits == <<"0", "1", "2", "3", "4", "5", "6", "7",
               "8", "9", "a", "b", "c", "d", "e", "f">>

\* the two lowercase hex digits of one byte
HexByte(x) == <<HexDigits[(x \div 16) + 1], HexDigits[(x % 16) + 1]>>

\* bytes.hex()
RECURSIVE hex(_)
hex(b) == IF b = <<>> THEN <<>> ELSE HexByte(b[1]) \o hex(Tail(b))

\* bytes.hex(":")
RECURSIVE hex_sep(_)
hex_sep(b) ==
    IF b = <<>> THEN <<>>
    ELSE IF Len(b) = 1 THEN HexByte(b[1])
    ELSE HexByte(b[1]) \o <<":">> \o hex_sep(Tail(b))

\* struct.unpack("!H", b)[0]: exactly two bytes, big-endian unsigned
unpack_H(b) ==
    IF Len(b) # 2 THEN Raise("struct.error", "unpack !H")
    ELSE Ok(b[1] * 256 + b[2])

\* the "l" of struct.unpack("!Bl", ...): four bytes, big-endian, SIGNED
\* (two's complement: the first byte counts as b[1] - 256 when its top bit is set)
unpack_l(b) ==
    LET top == IF b[1] >= 128 THEN b[1] - 256 ELSE b[1]
    IN  ((top * 256 + b[2]) * 256 + b[3]) * 256 + b[4]

\* a UTF-8 continuation byte at (1-based) position i of b
IsCont(b, i) == i <= Len(b) /\ b[i] >= 128 /\ b[i] <= 191

\* bytes.decode("utf-8") (strict): the code points, or UnicodeDecodeError
RECURSIVE utf8_decode(_)
utf8_decode(b) ==
    IF b = <<>> THEN Ok(<<>>)
    ELSE
      LET c == b[1]
          n == Len(b)
          size == IF c < 128 THEN 1
                  ELSE IF c >= 194 /\ c <= 223 /\ IsCont(b, 2) THEN 2
                  ELSE IF /\ c >= 224 /\ c <= 239
                          /\ IsCont(b, 2) /\ IsCont(b, 3)
                          /\ (c = 224 => b[2] >= 160)
                          /\ (c = 237 => b[2] <= 159) THEN 3
                  ELSE IF /\ c >= 240 /\ c <= 244
                          /\ IsCont(b, 2) /\ IsCont(b, 3) /\ IsCont(b, 4)
                          /\ (c = 240 => b[2] >= 144)
                          /\ (c = 244 => b[2] <= 143) THEN 4
                  ELSE 0
          cp == CASE size = 1 -> c
                  [] size = 2 -> (c - 192) * 64 + (b[2] - 128)
                  [] size = 3 -> ((c - 224) * 64 + (b[2] - 128)) * 64 + (b[3] - 128)
                  [] size = 4 -> (((c - 240) * 64 + (b[2] - 128)) * 64
                                    + (b[3] - 128)) * 64 + (b[4] - 128)
                  [] OTHER -> 0
      IN  IF size = 0 THEN Raise("UnicodeDecodeError", "decode utf-8")
          ELSE LET rest == utf8_decode(SliceFrom(b, size))
               IN  IF rest.ok THEN Ok(<<cp>> \o rest.val) ELSE rest

(***************************************************************************)
(* tlvs.py: the length bounds and the type table.                          *)
(***************************************************************************)
MIN_LENGTH(cls) ==
    CASE cls = "EndOfLLDPDU" -> 0
      [] cls = "ChassisID" -> 1
      [] cls = "PortID" -> 1
      [] cls = "TimeToLive" -> 2
      [] cls = "PortDescription" -> 0
      [] cls = "SystemName" -> 0
      [] cls = "SystemDescription" -> 0
      [] cls = "SystemCapabilities" -> 4
      [] cls = "ManagementAddress" -> 9
      [] cls = "OrgSpecificTLV" -> 4
      [] OTHER -> 0   \* TLV and TLVNotImplemented, which inherits it

MAX_LENGTH(cls) ==
    CASE cls = "EndOfLLDPDU" -> 0
      [] cls = "ChassisID" -> 256
      [] cls = "PortID" -> 255
      [] cls = "TimeToLive" -> 2
      [] cls = "PortDescription" -> 255
      [] cls = "SystemName" -> 255
      [] cls = "SystemDescription" -> 255
      [] cls = "SystemCapabilities" -> 4
      [] cls = "ManagementAddress" -> 167
      [] cls = "OrgSpecificTLV" -> 511
      [] OTHER -> 511   \* TLV and TLVNotImplemented, which inherits it

TYPE_CODES ==
    (0 :> "EndOfLLDPDU") @@ (1 :> "ChassisID") @@ (2 :> "PortID")
    @@ (3 :> "TimeToLive") @@ (4 :> "PortDescription") @@ (5 :> "SystemName")
    @@ (6 :> "SystemDescription") @@ (7 :> "SystemCapabilities")
    @@ (8 :> "ManagementAddress") @@ (127 :> "OrgSpecificTLV")

\* len(value) outside the class's bounds
OutOfRange(cls, value) ==
    Len(value) < MIN_LENGTH(cls) \/ Len(value) > MAX_LENGTH(cls)

\* TLV.validate_length, run by every constructor.  Its raise statement formats
\* self.MINIMUM_LENGTH, an attribute no class defines, so what leaves the
\* method is the AttributeError of that lookup and never the ValueError.
validate_length(cls, value) ==
    IF OutOfRange(cls, value)
    THEN Raise("AttributeError", "validate_length")
    ELSE Ok(None)

\* the check every subclass's decode() opens with
decode_length_check(cls, value) ==
    IF OutOfRange(cls, value) THEN Raise("ValueError", "decode length") ELSE Ok(None)

(***************************************************************************)
(* tlvs.py: the decoders.  Each takes the fields of the constructed object *)
(* (type_code, length, value) and gives Ok(dict) or the raised exception.  *)
(***************************************************************************)
EndOfLLDPDU_decode(type_code, length, value) ==
    IF ~decode_length_check("EndOfLLDPDU", value).ok
    THEN decode_length_check("EndOfLLDPDU", value)
    ELSE Ok([EndOfLLDPDU |-> None])

ChassisID_subtypes ==
    (0 :> "Reserved") @@ (1 :> "Chassis component") @@ (2 :> "Interface Alias")
    @@ (3 :> "Port component") @@ (4 :> "MAC address") @@ (5 :> "Network address")
    @@ (6 :> "Interface name") @@ (7 :> "Locally assigned")

\* subtypes[chassis_id_subtype]: a dict lookup, KeyError on a missing key
ChassisID_lookup(subtype) ==
    IF subtype \in DOMAIN ChassisID_subtypes
    THEN Ok(ChassisID_subtypes[subtype])
    ELSE Raise("KeyError", "ChassisID subtypes")

ChassisID_decode(type_code, length, value) ==
    IF ~decode_length_check("ChassisID", value).ok
    THEN decode_length_check("ChassisID", value)
    ELSE IF Len(value) # 7 THEN Raise("struct.error", "unpack !B6s")
    ELSE
      LET chassis_id_subtype == value[1]
          chassis_id == SubSeq(value, 2, 7)
          name == ChassisID_lookup(chassis_id_subtype)
      IN  IF chassis_id_subtype \notin DOMAIN ChassisID_subtypes
          THEN \* the "Reserved" branch looks the missing key up again
               IF ~name.ok THEN name
               ELSE Ok([Reserved |-> [chassis_id_subtype |-> name.val,
                                      chassis_id |-> hex(chassis_id)]])
          ELSE Ok([ChassisID |->
                     [chassis_id_subtype |-> name.val,
                      chassis_id |-> IF chassis_id_subtype = 4
                                     THEN hex_sep(chassis_id)
                                     ELSE hex(chassis_id)]])

PortID_subtypes ==
    (0 :> "Reserved") @@ (1 :> "Interface alias") @@ (2 :> "Port component")
    @@ (3 :> "MAC address") @@ (4 :> "Network address") @@ (5 :> "Interface name")
    @@ (6 :> "Agent circuit ID") @@ (7 :> "Locally assigned")

\* subtypes[port_id_subtype]
PortID_lookup(subtype) ==
    IF subtype \in DOMAIN PortID_subtypes
    THEN Ok(PortID_subtypes[subtype])
    ELSE Raise("KeyError", "PortID subtypes")

PortID_decode(type_code, length, value) ==
    IF ~decode_length_check("PortID", value).ok
    THEN decode_length_check("PortID", value)
    ELSE
      LET port_id_subtype == value[1]
          port_id == SliceFrom(value, 1)
          name == PortID_lookup(port_id_subtype)
          text == utf8_decode(port_id)
      IN  IF ~name.ok THEN name
          ELSE IF ~text.ok THEN text
          ELSE IF port_id_subtype \notin DOMAIN PortID_subtypes
          THEN Ok([Reserved |-> [port_id_subtype |-> name.val, port_id |-> text.val]])
          ELSE Ok([PortID |-> [port_id_subtype |-> name.val, port_id |-> text.val]])

TimeToLive_decode(type_code, length, value) ==
    IF ~decode_length_check("TimeToLive", value).ok
    THEN decode_length_check("TimeToLive", value)
    ELSE LET time_to_live == unpack_H(value)
         IN  IF ~time_to_live.ok THEN time_to_live
             ELSE Ok([TimeToLive |-> time_to_live.val])

\* unpack(f"!{self.length}s", self.value)[0] followed by .decode("utf-8"):
\* the format is built from the DECLARED length, the buffer is the value
text_field(length, value) ==
    IF Len(value) # length THEN Raise("struct.error", "unpack !{length}s")
    ELSE utf8_decode(value)

PortDescription_decode(type_code, length, value) ==
    IF ~decode_length_check("PortDescription", value).ok
    THEN decode_length_check("PortDescription", value)
    ELSE LET text == text_field(length, value)
         IN  IF ~text.ok THEN text ELSE Ok([PortDescription |-> text.val])

SystemName_decode(type_code, length, value) ==
    IF ~decode_length_check("SystemName", value).ok
    THEN decode_length_check("SystemName", value)
    ELSE LET text == text_field(length, value)
         IN  IF ~text.ok THEN text ELSE Ok([SystemName |-> text.val])

SystemDescription_decode(type_code, length, value) ==
    IF ~decode_length_check("SystemDescription", value).ok
    THEN decode_length_check("SystemDescription", value)
    ELSE LET text == text_field(length, value)
         IN  IF ~text.ok THEN text ELSE Ok([SystemDescription |-> text.val])

CAPABILITIES_BITMAP ==
    (0 :> "Other") @@ (1 :> "Repeater") @@ (2 :> "Bridge")
    @@ (3 :> "WLAN access point") @@ (4 :> "Router") @@ (5 :> "Telephone")
    @@ (6 :> "DOCSIS cable device") @@ (7 :> "Station only")

\* int.bit_length()
RECURSIVE bit_length(_)
bit_length(x) == IF x = 0 THEN 0 ELSE 1 + bit_length(x \div 2)

\* reversed([char for char in f"{x:#010b}"[2:]]): "#010b" pads "0b..." to ten
\* characters, so there are eight digits, or more when x needs more; the
\* reversal puts the least significant digit first
reversed_bits(x) ==
    [i \in 1..Max(8, bit_length(x)) |-> (x \div (2 ^ (i - 1))) % 2]

\* the dict the loop fills from the first n digits
capability_dict(bits, n) ==
    [k \in {CAPABILITIES_BITMAP[i] : i \in 0..(n - 1)} |->
        bits[(CHOOSE i \in 0..(n - 1) : CAPABILITIES_BITMAP[i] = k) + 1] = 1]

SystemCapabilities_decode(type_code, length, value) ==
    IF ~decode_length_check("SystemCapabilities", value).ok
    THEN decode_length_check("SystemCapabilities", value)
    ELSE
      LET system_capabilities == reversed_bits(value[1] * 256 + value[2])
          enabled_capabilites == reversed_bits(value[3] * 256 + value[4])
          \* zip() stops with the shorter of the two
          n == Min(Len(system_capabilities), Len(enabled_capabilites))
      IN  IF \E index \in 0..(n - 1) : index \notin DOMAIN CAPABILITIES_BITMAP
          THEN Raise("KeyError", "CAPABILITIES_BITMAP")
          ELSE Ok([SystemCapabilities |->
                     [system_capabilities |-> capability_dict(system_capabilities, n),
                      enabled_capabilities |-> capability_dict(enabled_capabilites, n)]])

\* ipaddress.IPv4Address(bytes) and its str(): four bytes, the dotted quad
IPv4Address(b) ==
    IF Len(b) # 4 THEN Raise("AddressValueError", "IPv4Address")
    ELSE Ok([dotted_quad |-> b])

\* ipaddress.IPv6Address(bytes) and its str(): sixteen bytes, shown as eight
\* 16-bit groups (the "::" shortening of the text form is not modelled)
IPv6Address(b) ==
    IF Len(b) # 16 THEN Raise("AddressValueError", "IPv6Address")
    ELSE Ok([hextets |-> [i \in 1..8 |-> b[2 * i - 1] * 256 + b[2 * i]]])

interface_subtypes ==
    (0 :> "Reserved") @@ (1 :> "Unknown") @@ (2 :> "ifIndex")
    @@ (3 :> "system port number")

\* the "interface_subtype == 0 and interface > 0" test
interface_check(interface_subtype, interface) ==
    IF interface_subtype = 0 /\ interface > 0
    THEN Raise("ValueError", "interface check")
    ELSE Ok(None)

ManagementAddress_decode(type_code, length, value) ==
    IF ~decode_length_check("ManagementAddress", value).ok
    THEN decode_length_check("ManagementAddress", value)
    ELSE
      LET mgmt_addr_str_len == value[1]
          addr_buf == Slice(value, 1, mgmt_addr_str_len + 1)
          mgmt_addr_subtype == addr_buf[1]
          addr_bytes == SliceFrom(addr_buf, 1)
          mgmt_addr == IF mgmt_addr_subtype = 1 THEN IPv4Address(addr_bytes)
                       ELSE IF mgmt_addr_subtype = 2 THEN IPv6Address(addr_bytes)
                       ELSE Ok(str_bytes(addr_bytes))
          if_buf == Slice(value, mgmt_addr_str_len + 1, mgmt_addr_str_len + 6)
          interface_subtype == if_buf[1]
          interface == unpack_l(SliceFrom(if_buf, 1))
          oid_buf == Slice(value, mgmt_addr_str_len + 6, mgmt_addr_str_len + 7)
          oid_length == oid_buf[1]
          oid_bytes == Slice(value, mgmt_addr_str_len + 7,
                             mgmt_addr_str_len + 7 + oid_length)
      IN  IF mgmt_addr_str_len = 0
          THEN Raise("struct.error", "format !B-1s")
          ELSE IF Len(addr_buf) # mgmt_addr_str_len
          THEN Raise("struct.error", "unpack !B{n}s")
          ELSE IF ~mgmt_addr.ok THEN mgmt_addr
          ELSE IF Len(if_buf) # 5 THEN Raise("struct.error", "unpack !Bl")
          ELSE IF ~interface_check(interface_subtype, interface).ok
          THEN interface_check(interface_subtype, interface)
          ELSE IF interface_subtype \notin DOMAIN interface_subtypes
          THEN Raise("KeyError", "interface_subtypes")
          ELSE IF Len(oid_buf) # 1 THEN Raise("struct.error", "unpack !B")
          ELSE IF oid_length # 0 /\ Len(oid_bytes) # oid_length
          THEN Raise("struct.error", "unpack !{oid_length}s")
          ELSE Ok([ManagementAddress |->
                     [address_string_length |-> mgmt_addr_str_len,
                      address_subtype |-> mgmt_addr_subtype,
                      management_address |-> mgmt_addr.val,
                      interface_subtype |-> interface_subtypes[interface_subtype],
                      interface_number |-> interface,
                      oid_length |-> oid_length,
                      oid_string |-> IF oid_length = 0 THEN None
                                     ELSE [tuple |-> str_bytes(oid_bytes)]]])

OrgSpecificTLV_decode(type_code, length, value) ==
    IF ~decode_length_check("OrgSpecificTLV", value).ok
    THEN decode_length_check("OrgSpecificTLV", value)
    ELSE Ok([OrgSpecificTLV |->
               [oui |-> hex_sep(Slice(value, 0, 3)),
                org_subcode |-> value[4],
                tlv_raw_value |-> str_bytes(SliceFrom(value, 4))]])

TLVNotImplemented_decode(type_code, length, value) ==
    Ok([tlv_not_implemented |-> TRUE,
        tlv_code |-> type_code,
        tlv_length |-> length,
        tlv_value |-> str_bytes(value)])

\* decode() of the class c, on an object already constructed
class_decode(c, type_code, length, value) ==
    CASE c = "EndOfLLDPDU" -> EndOfLLDPDU_decode(type_code, length, value)
      [] c = "ChassisID" -> ChassisID_decode(type_code, length, value)
      [] c = "PortID" -> PortID_decode(type_code, length, value)
      [] c = "TimeToLive" -> TimeToLive_decode(type_code, length, value)
      [] c = "PortDescription" -> PortDescription_decode(type_code, length, value)
      [] c = "SystemName" -> SystemName_decode(type_code, length, value)
      [] c = "SystemDescription" -> SystemDescription_decode(type_code, length, value)
      [] c = "SystemCapabilities" -> SystemCapabilities_decode(type_code, length, value)
      [] c = "ManagementAddress" -> ManagementAddress_decode(type_code, length, value)
      [] c = "OrgSpecificTLV" -> OrgSpecificTLV_decode(type_code, length, value)
      [] OTHER -> TLVNotImplemented_decode(type_code, length, value)

\* cls(type_code, length, value).decode(): the constructor validates the
\* length against the class's bounds, then the class decodes
construct_and_decode(c, type_code, length, value) ==
    IF ~validate_length(c, value).ok THEN validate_length(c, value)
    ELSE class_decode(c, type_code, length, value)

\* a dispatch that hands every code missing from the table to OrgSpecificTLV
dispatch_defaults_to_org(type_code) ==
    IF type_code \notin DOMAIN TYPE_CODES THEN "OrgSpecificTLV"
    ELSE TYPE_CODES[type_code]

\* the class TLV.decode picks for a type code
dispatch(type_code) ==
    IF type_code \notin DOMAIN TYPE_CODES THEN "TLVNotImplemented"
    ELSE TYPE_CODES[type_code]

\* TLV.decode, on a TLV object already constructed
TLV_decode(type_code, length, value) ==
    construct_and_decode(dispatch(type_code), type_code, length, value)

\* TLV(tlv_code, tlv_length, tlv_data).decode(), as LLDP.decode calls it
TLV_new_decode(type_code, length, value) ==
    IF ~validate_length("TLV", value).ok THEN validate_length("TLV", value)
    ELSE TLV_decode(type_code, length, value)

(***************************************************************************)
(* server.py: the frame check and the TLV walk.                            *)
(***************************************************************************)
\* "01:80:c2:00:00:0e"
LLDP_MULTICAST ==
    <<"0", "1", ":", "8", "0", ":", "c", "2", ":",
      "0", "0", ":", "0", "0", ":", "0", "e">>

\* b"\x88\xCC"
LLDP_ETHERTYPE == <<136, 204>>

\* data[12:14] == self.LLDP_ETHERTYPE
ethertype_matches(frame) == Slice(frame, 12, 14) = LLDP_ETHERTYPE

\* a destination check that compares only the 01:80:c2 prefix of the address
dst_matches_prefix_only(ether_header) ==
    hex_sep(Slice(ether_header, 0, 3)) = SubSeq(LLDP_MULTICAST, 1, 8)

\* dst == self.LLDP_MULTICAST, dst being the first six bytes of the unpacked
\* header as colon-separated hex
dst_matches(ether_header) == hex_sep(Slice(ether_header, 0, 6)) = LLDP_MULTICAST

\* tlv_headers >> 9
tlv_code_of(tlv_headers) == tlv_headers \div 512

\* tlv_headers & 0x01FF
tlv_length_of(tlv_headers) == tlv_headers % 512

\* lldp_frame[2 : 2 + tlv_length]
tlv_data_of(frame, tlv_length) == Slice(frame, 2, 2 + tlv_length)

\* a walk that steps over the value only and leaves the two header bytes in
advance_keeps_header(frame, tlv_length) == SliceFrom(frame, tlv_length)

\* a walk that takes a TLV of length 0, the EndOfLLDPDU, for the end of the frame
advance_stops_at_end(frame, tlv_length) ==
    IF tlv_length = 0 THEN <<>> ELSE SliceFrom(frame, 2 + tlv_length)

\* lldp_frame[2 + tlv_length :]
advance(frame, tlv_length) == SliceFrom(frame, 2 + tlv_length)

NoOutcome == [kind |-> "none", type |-> "", site |-> ""]

Returned(site) == [kind |-> "returned", type |-> "", site |-> site]

Raised(err) == [kind |-> "raised", type |-> err.type, site |-> err.site]

(***************************************************************************)
(* The frames the socket may deliver.                                      *)
(***************************************************************************)
\* the two header bytes of a TLV of the given type code and declared length
TlvHeader(code, length) ==
    <<(code * 512 + length) \div 256, (code * 512 + length) % 256>>

\* a TLV on the wire whose declared length is the length of its value
Chunk(code, value) == TlvHeader(code, Len(value)) \o value

\* n bytes b
Fill(n, b) == [i \in 1..n |-> b]

ChassisBytes == <<170, 187, 204, 221, 238, 255>>

Ipv4Addr == <<5, 1, 192, 168, 1, 1>>

\* the TLVs studied one at a time: every type of the table, valid and not
FocusTLVs ==
    { Chunk(0, <<>>), Chunk(0, <<0>>) }
    \cup { Chunk(1, <<st>> \o ChassisBytes) : st \in {0, 4, 7, 8, 255} }
    \cup { Chunk(1, <<>>), Chunk(1, <<4, 170>>),
           Chunk(1, Fill(MAX_LENGTH("ChassisID") + 1, 65)) }
    \cup { Chunk(2, <<5, 101, 116, 104>>), Chunk(2, <<3>>), Chunk(2, <<8, 65>>),
           Chunk(2, <<7, 195, 169>>), Chunk(2, <<1, 226, 130, 172>>),
           Chunk(2, <<5, 255>>), Chunk(2, <<>>),
           Chunk(2, Fill(MAX_LENGTH("PortID") + 1, 65)) }
    \cup { Chunk(3, <<0, 120>>), Chunk(3, <<120>>), Chunk(3, <<0, 0, 120>>) }
    \cup { Chunk(4, <<>>), Chunk(4, <<65>>), Chunk(4, <<195>>),
           Chunk(4, Fill(MAX_LENGTH("PortDescription") + 1, 65)) }
    \cup { Chunk(5, <<115, 119>>), Chunk(6, <<65, 240, 159, 152, 128>>) }
    \cup { Chunk(7, <<0, 20, 0, 4>>), Chunk(7, <<1, 20, 0, 4>>),
           Chunk(7, <<0, 20, 255, 4>>), Chunk(7, <<1, 20, 1, 4>>),
           Chunk(7, <<0, 255, 0, 255>>), Chunk(7, <<0, 20, 0>>) }
    \cup { Chunk(8, Ipv4Addr \o <<st>> \o num \o <<0>>) :
             st \in {0, 2},
             num \in {<<0, 0, 0, 0>>, <<0, 0, 0, 1>>, <<127, 255, 255, 255>>,
                      <<128, 0, 0, 0>>, <<255, 255, 255, 255>>} }
    \cup { Chunk(8, Ipv4Addr \o <<4, 0, 0, 0, 1, 0>>),
           Chunk(8, Ipv4Addr \o <<2, 0, 0, 0, 1, 2, 43, 6>>),
           Chunk(8, Ipv4Addr \o <<2, 0, 0, 0, 1, 3, 43>>),
           Chunk(8, <<0, 1, 192, 168, 1, 1, 2, 0, 0, 0, 1, 0>>),
           Chunk(8, <<4, 1, 192, 168, 1, 2, 0, 0, 0, 1, 0>>),
           Chunk(8, <<7, 6>> \o ChassisBytes \o <<2, 0, 0, 0, 1, 0>>),
           Chunk(8, <<17, 2, 32, 1, 13, 184>> \o Fill(11, 0)
                      \o <<1, 2, 0, 0, 0, 1, 0>>),
           Chunk(8, <<200, 1, 192, 168, 1, 1, 2, 0, 0>>),
           Chunk(8, <<3, 6, 1, 2, 2, 0, 0, 0, 1>>),
           Chunk(8, <<5, 1, 192>>),
           Chunk(8, Fill(MAX_LENGTH("ManagementAddress") + 1, 1)) }
    \cup { Chunk(127, <<0, 18, 15, 1, 3>>), Chunk(127, <<0, 128, 194, 1>>),
           Chunk(127, <<0, 18, 15>>) }
    \cup { Chunk(9, <<>>), Chunk(9, <<1, 2>>), Chunk(64, <<7>>), Chunk(126, <<255>>),
           Chunk(9, Fill(MAX_LENGTH("TLV"), 0)) }

\* the TLVs placed around the TLV under study: each decodes without error
FillerTLVs ==
    { Chunk(0, <<>>), Chunk(3, <<0, 120>>), Chunk(5, <<115, 119>>), Chunk(9, <<1, 2>>) }

SeqsUpTo(S, n) == UNION { [1..k -> S] : k \in 0..n }

RECURSIVE Flatten(_)
Flatten(ss) == IF ss = <<>> THEN <<>> ELSE ss[1] \o Flatten(Tail(ss))

\* s without its last k bytes
CutEnd(s, k) == Slice(s, 0, Max(0, Len(s) - k))

\* bytes of the payloads enumerated byte by byte
RawBytes == {0, 1, 2, 18, 254, 255}

RawPayloads == SeqsUpTo(RawBytes, MaxRawLen)

TlvPayloads ==
    { CutEnd(Flatten(before) \o focus \o Flatten(after), k) :
        before \in SeqsUpTo(FillerTLVs, MaxBefore), focus \in FocusTLVs,
        after \in SeqsUpTo(FillerTLVs, MaxAfter), k \in 0..MaxCut }

Payloads == RawPayloads \cup TlvPayloads

SrcMac == <<0, 17, 34, 51, 68, 85>>

\* destination 01:80:c2:00:00:0e, EtherType 0x88CC
LldpHeader == <<1, 128, 194, 0, 0, 14>> \o SrcMac \o LLDP_ETHERTYPE

\* headers of other protocols: one of the two fields, or both, differ
OtherHeaders ==
    { dst \o SrcMac \o et :
        dst \in { <<1, 128, 194, 0, 0, 14>>, <<1, 128, 194, 0, 0, 3>>,
                  <<255, 255, 255, 255, 255, 255>> },
        et \in { LLDP_ETHERTYPE, <<8, 0>>, <<136, 205>>, <<204, 136>> } }
    \ { LldpHeader }

\* frames shorter than an Ethernet header, the empty frame among them
ShortFrames ==
    { Slice(h, 0, k) : h \in OtherHeaders \cup {LldpHeader}, k \in 0..13 }
    \cup { Slice(LldpHeader, 12, 14), SliceFrom(LldpHeader, 1) }

Frames ==
    { LldpHeader \o p : p \in Payloads }
    \cup { h \o p : h \in OtherHeaders, p \in RawPayloads \cup FocusTLVs }
    \cup ShortFrames

(***************************************************************************)
(* The capture loop (example.py) around LLDP(data) (server.py).            *)
(*   pc           "recv": in recvfrom; "loop": in the while loop of        *)
(*                decode; "done": LLDP(data) has returned; "crashed": an   *)
(*                exception left LLDP(data), and with it the script        *)
(*   data         the frame of the current LLDP(data) call                 *)
(*   lldp_frame   the bytes the walk has not consumed yet                  *)
(*   handed       the (type_code, length, value) given to TLV(), in order  *)
(*   printed      the dicts printed by this call, in order                 *)
(*   decoded_data self.decoded_data                                        *)
(*   outcome      how the call ended                                       *)
(***************************************************************************)
Init ==
    /\ pc = "recv"
    /\ data = <<>>
    /\ lldp_frame = <<>>
    /\ handed = <<>>
    /\ printed = <<>>
    /\ decoded_data = <<>>
    /\ outcome = NoOutcome

\* recvfrom delivers a frame; LLDP.__init__ and decode up to the while loop
Receive ==
    /\ pc = "recv"
    /\ \E frame \in Frames :
         /\ data' = frame
         /\ decoded_data' = <<>>
         /\ handed' = <<>>
         /\ printed' = <<>>
         /\ IF ~ethertype_matches(frame)
            THEN /\ pc' = "done"
                 /\ outcome' = Returned("ethertype")
                 /\ lldp_frame' = <<>>
            ELSE IF Len(Slice(frame, 0, 14)) # 14
            THEN /\ pc' = "crashed"
                 /\ outcome' = Raised(Raise("struct.error", "unpack !6s6sH").err)
                 /\ lldp_frame' = <<>>
            ELSE IF ~dst_matches(Slice(frame, 0, 14))
            THEN /\ pc' = "done"
                 /\ outcome' = Returned("dst")
                 /\ lldp_frame' = <<>>
            ELSE /\ pc' = "loop"
                 /\ outcome' = NoOutcome
                 /\ lldp_frame' = SliceFrom(frame, 14)

\* one iteration of "while lldp_frame:"
LoopStep ==
    /\ pc = "loop"
    /\ lldp_frame # <<>>
    /\ LET tlv_headers == unpack_H(Slice(lldp_frame, 0, 2))
       IN  IF ~tlv_headers.ok
           THEN /\ pc' = "crashed"
                /\ outcome' = Raised(tlv_headers.err)
                /\ UNCHANGED <<lldp_frame, handed, printed>>
           ELSE
             LET tlv_code == tlv_code_of(tlv_headers.val)
                 tlv_length == tlv_length_of(tlv_headers.val)
                 tlv_data == tlv_data_of(lldp_frame, tlv_length)
                 decoded == TLV_new_decode(tlv_code, tlv_length, tlv_data)
             IN  /\ handed' = Append(handed, [type_code |-> tlv_code,
                                              length |-> tlv_length,
                                              value |-> tlv_data])
                 /\ IF ~decoded.ok
                    THEN /\ pc' = "crashed"
                         /\ outcome' = Raised(decoded.err)
                         /\ UNCHANGED <<lldp_frame, printed>>
                    ELSE /\ printed' = Append(printed, decoded.val)
                         /\ lldp_frame' = advance(lldp_frame, tlv_length)
                         /\ UNCHANGED <<pc, outcome>>
    /\ UNCHANGED <<data, decoded_data>>

\* the loop condition fails: decode and LLDP(data) return
LoopExit ==
    /\ pc = "loop"
    /\ lldp_frame = <<>>
    /\ pc' = "done"
    /\ outcome' = Returned("end")
    /\ UNCHANGED <<data, lldp_frame, handed, printed, decoded_data>>

\* "while True": back to recvfrom; nothing of the last call is kept
NextIteration ==
    /\ pc = "done"
    /\ pc' = "recv"
    /\ data' = <<>>
    /\ lldp_frame' = <<>>
    /\ handed' = <<>>
    /\ printed' = <<>>
    /\ decoded_data' = <<>>
    /\ outcome' = NoOutcome

Next == Receive \/ LoopStep \/ LoopExit \/ NextIteration

Spec == Init /\ [][Next]_vars

(***************************************************************************)
(* What the claims speak of, read off the frame itself.                    *)
(***************************************************************************)
\* the frame of the current call has been taken in by LLDP(data)
InCall == pc # "recv"

\* the bytes after the 14-byte Ethernet header
PayloadOf(frame) == IF Len(frame) <= 14 THEN <<>> ELSE SubSeq(frame, 15, Len(frame))

\* the frame carries the LLDP EtherType and the LLDP multicast destination
IsLldpFrame(frame) ==
    /\ Len(frame) >= 14
    /\ SubSeq(frame, 13, 14) = <<136, 204>>
    /\ SubSeq(frame, 1, 6) = <<1, 128, 194, 0, 0, 14>>

RecognizedCodes == {0, 1, 2, 3, 4, 5, 6, 7, 8, 127}

\* the sum of 2 + declared length over the TLVs handed to the decoders
RECURSIVE SumDeclared(_)
SumDeclared(hs) ==
    IF hs = <<>> THEN 0 ELSE 2 + hs[1].length + SumDeclared(Tail(hs))

\* C1: every TLV handed to a decoder carries a value of exactly its declared
\* length (a header announcing more bytes than remain is a truncation error,
\* never a record with a short value), and a walk that ends without error has
\* produced records whose 2 + declared length sum to the payload length.
C1_SequencerExact ==
    /\ \A i \in 1..Len(handed) : Len(handed[i].value) = handed[i].length
    /\ (InCall /\ outcome = Returned("end"))
         => SumDeclared(handed) = Len(PayloadOf(data))

\* C2: a frame shorter than 14 bytes, the empty frame included, fails with an
\* error (TruncatedFrame); the call never returns silently as for a frame of
\* another protocol.
C2_ShortFrameFails ==
    (InCall /\ Len(data) < 14) => outcome.kind = "raised"

\* C3: a frame whose bytes [12:14] are not 0x88CC, or whose bytes [0:6] are not
\* 01:80:C2:00:00:0E, ends in the "not LLDP" return: no error is raised, no TLV
\* header is read and no decoder is invoked, whatever follows the header.
C3_NotLldpReturns ==
    (InCall /\ ~IsLldpFrame(data))
      => /\ pc = "done"
         /\ outcome.kind = "returned"
         /\ outcome.site \in {"ethertype", "dst"}
         /\ handed = <<>>
         /\ printed = <<>>

\* a frame with the LLDP EtherType, another destination and a TLV behind the
\* header has been returned as not LLDP
C3_Witness ==
    /\ pc = "done"
    /\ outcome = Returned("dst")
    /\ Len(data) > 14
    /\ SubSeq(data, 13, 14) = <<136, 204>>

\* C4: a TLV whose type code is not in the table never fails: it yields the
\* unimplemented record with that type code, the declared length and the raw
\* value as given, and the walk goes on behind it.
C4_UnknownTypeFallback ==
    \A i \in 1..Len(handed) :
      handed[i].type_code \notin RecognizedCodes
        => /\ i <= Len(printed)
           /\ DOMAIN printed[i] =
                {"tlv_not_implemented", "tlv_code", "tlv_length", "tlv_value"}
           /\ printed[i].tlv_not_implemented = TRUE
           /\ printed[i].tlv_code = handed[i].type_code
           /\ printed[i].tlv_length = handed[i].length
           /\ printed[i].tlv_value.bytes = handed[i].value
           /\ (i = Len(handed) /\ pc = "crashed") => outcome.site = "unpack !H"

\* an unknown TLV of 511 bytes was decoded and the TLV behind it as well
C4_Witness ==
    /\ Len(handed) >= 2
    /\ handed[1].type_code \notin RecognizedCodes
    /\ Len(handed[1].value) = 511
    /\ Len(printed) = 2

\* C5: a TLV of a recognized type whose value length is outside the type's
\* [MIN_LENGTH, MAX_LENGTH] fails with the length-validation ValueError and
\* with no other kind of error, and yields no record.
C5_LengthErrorIsValueError ==
    \A i \in 1..Len(handed) :
      (/\ handed[i].type_code \in RecognizedCodes
       /\ OutOfRange(TYPE_CODES[handed[i].type_code], handed[i].value))
        => /\ Len(printed) < i
           /\ pc = "crashed"
           /\ outcome.type = "ValueError"

\* the fields behind the subtype byte of a ChassisID or PortID value are well
\* formed: six id bytes, or a port id that is UTF-8
IdFieldsWellFormed(h) ==
    /\ Len(h.value) = h.length
    /\ IF h.type_code = 1 THEN Len(h.value) = 7
       ELSE utf8_decode(SubSeq(h.value, 2, Len(h.value))).ok

\* C6: in a ChassisID or PortID TLV of valid length the first value byte is
\* the subtype; a subtype byte in 8..255 decodes successfully, to a record
\* labelled "Reserved".  (Stated for TLVs whose other fields are well formed.)
C6_ReservedSubtypeDecodes ==
    \A i \in 1..Len(handed) :
      (/\ handed[i].type_code \in {1, 2}
       /\ ~OutOfRange(TYPE_CODES[handed[i].type_code], handed[i].value)
       /\ IdFieldsWellFormed(handed[i])
       /\ handed[i].value[1] >= 8)
        => /\ i <= Len(printed)
           /\ "Reserved" \in DOMAIN printed[i]

\* bit k of a 16-bit bitmap
BitSet(x, k) == (x \div (2 ^ k)) % 2 = 1

CapabilityNames ==
    <<"Other", "Repeater", "Bridge", "WLAN access point", "Router",
      "Telephone", "DOCSIS cable device", "Station only">>

\* C7: every 4-byte SystemCapabilities value decodes, to exactly 8 booleans per
\* bitmap, the one of capability k being true iff bit k (bit 0 the least
\* significant) of that bitmap is set; bits 8..15 neither fail nor count.
C7_CapabilityBits ==
    \A i \in 1..Len(handed) :
      (handed[i].type_code = 7 /\ Len(handed[i].value) = 4)
        => /\ i <= Len(printed)
           /\ LET v == handed[i].value
                  system == v[1] * 256 + v[2]
                  enabled == v[3] * 256 + v[4]
                  r == printed[i].SystemCapabilities
              IN  /\ DOMAIN r.system_capabilities = {CapabilityNames[k] : k \in 1..8}
                  /\ DOMAIN r.enabled_capabilities = {CapabilityNames[k] : k \in 1..8}
                  /\ \A k \in 0..7 :
                       /\ r.system_capabilities[CapabilityNames[k + 1]] = BitSet(system, k)
                       /\ r.enabled_capabilities[CapabilityNames[k + 1]] = BitSet(enabled, k)

\* the value holds an address string of n >= 1 bytes and, behind it, the
\* interface subtype byte, the four bytes of the interface number, the OID
\* length byte and that many OID bytes
HasInterfaceField(v) ==
    /\ v[1] >= 1
    /\ v[1] + 7 <= Len(v)
    /\ v[1] + 7 + v[v[1] + 7] <= Len(v)

\* C8: a length-valid ManagementAddress TLV whose interface subtype byte is 0
\* and whose 4-byte interface number is not zero (0x00000001..0xFFFFFFFF) fails
\* with the field-validation error and yields no record.  (Stated for TLVs
\* whose value is complete and whose other fields are laid out as the format
\* asks.)
C8_ReservedInterfaceRejected ==
    \A i \in 1..Len(handed) :
      LET v == handed[i].value
      IN  (/\ handed[i].type_code = 8
           /\ Len(v) >= 9 /\ Len(v) <= 167
           /\ Len(v) = handed[i].length
           /\ HasInterfaceField(v)
           /\ v[v[1] + 2] = 0
           /\ SubSeq(v, v[1] + 3, v[1] + 6) # <<0, 0, 0, 0>>)
            => /\ Len(printed) < i
               /\ pc = "crashed"
               /\ outcome.type = "ValueError"
               /\ outcome.site = "interface check"

\* C9: a frame whose decode fails does not affect other frames: after the
\* failure the capture loop goes on to its next iteration, so the frames that
\* arrive later are still handed to LLDP.
C9_FailureIsPerFrame ==
    outcome.kind = "raised" => ENABLED NextIteration

\* the TLVs of a payload in wire order, split off the bytes one header at a
\* time: the 7-bit type, the 9-bit length, then that many value bytes
RECURSIVE WireTLVs(_)
WireTLVs(p) ==
    IF Len(p) < 2 THEN <<>>
    ELSE LET header == p[1] * 256 + p[2]
             len == header % 512
             last == Min(Len(p), 2 + len)
         IN  <<[type_code |-> header \div 512,
                length |-> len,
                value |-> IF len = 0 THEN <<>> ELSE SubSeq(p, 3, last)]>>
             \o (IF last = Len(p) THEN <<>> ELSE WireTLVs(SubSeq(p, last + 1, Len(p))))

\* the headers and values of the payload tile it exactly
RECURSIVE Tiles(_)
Tiles(p) ==
    \/ p = <<>>
    \/ /\ Len(p) >= 2
       /\ LET len == (p[1] * 256 + p[2]) % 512
          IN  /\ 2 + len <= Len(p)
              /\ Tiles(IF 2 + len = Len(p) THEN <<>> ELSE SubSeq(p, 3 + len, Len(p)))

\* a well-formed payload: its TLVs tile it and each of them decodes
WellFormed(p) ==
    /\ Tiles(p)
    /\ \A i \in 1..Len(WireTLVs(p)) :
         LET t == WireTLVs(p)[i]
         IN  TLV_new_decode(t.type_code, t.length, t.value).ok

\* C10: for a well-formed payload the records are emitted in wire order, one
\* per TLV header: the i-th record is the decode of the i-th TLV, repeated
\* types are each emitted, and a type-0 EndOfLLDPDU does not stop the walk:
\* the call ends only when every TLV has been decoded and emitted.
C10_WireOrder ==
    (InCall /\ IsLldpFrame(data) /\ WellFormed(PayloadOf(data)))
      => LET wire == WireTLVs(PayloadOf(data))
         IN  /\ pc \in {"loop", "done"}
             /\ Len(handed) <= Len(wire)
             /\ handed = SubSeq(wire, 1, Len(handed))
             /\ Len(printed) = Len(handed)
             /\ \A i \in 1..Len(printed) :
                  printed[i] = TLV_new_decode(wire[i].type_code, wire[i].length,
                                              wire[i].value).val
             /\ (pc = "done") => Len(printed) = Len(wire)

\* a payload of EndOfLLDPDU followed by two TimeToLive TLVs was decoded to
\* three records in that order
C10_Witness ==
    /\ pc = "done"
    /\ outcome = Returned("end")
    /\ Len(printed) = 3
    /\ handed[1].type_code = 0
    /\ handed[2].type_code = 3
    /\ handed[3].type_code = 3
    /\ "EndOfLLDPDU" \in DOMAIN printed[1]
    /\ "TimeToLive" \in DOMAIN printed[2]
    /\ "TimeToLive" \in DOMAIN printed[3]

\* the iterations of the while loop run so far in this call: one per TLV
\* handed to TLV(), and the one that raised while reading a header
Iterations ==
    Len(handed) + (IF pc = "crashed" /\ outcome.site = "unpack !H" THEN 1 ELSE 0)

\* what holds of the walk in every state
WalkBounded ==
    InCall =>
      \* at most ceil(len(payload) / 2) iterations
      /\ 2 * Iterations <= Len(PayloadOf(data)) + 1
      \* the loop ends by return exactly when no bytes remain
      /\ (outcome = Returned("end")) => lldp_frame = <<>>
      /\ (pc = "loop" /\ lldp_frame = <<>>) => ENABLED LoopExit
      /\ (pc = "loop" /\ lldp_frame # <<>>) => ~ENABLED LoopExit
      \* a zero-length payload: no iteration, no record, no error
      /\ (IsLldpFrame(data) /\ PayloadOf(data) = <<>>)
           => /\ handed = <<>>
              /\ printed = <<>>
              /\ pc \in {"loop", "done"}
              /\ outcome.kind # "raised"

\* a step taken inside the while loop is an iteration that raises and ends
\* the call, the return, or an iteration that strictly shrinks the remaining
\* payload: by 2 + the declared length, or to empty.  The length of the
\* remaining payload is thus a measure that every iteration but the last
\* lowers, and no walk goes on for ever.
WalkShrinks ==
    (pc = "loop")
      => \/ pc' = "crashed" /\ outcome'.kind = "raised"
         \/ pc' = "done" /\ outcome' = Returned("end") /\ lldp_frame = <<>>
         \/ /\ pc' = "loop"
            /\ Len(handed') = Len(handed) + 1
            /\ Len(lldp_frame') < Len(lldp_frame)
            /\ \/ Len(lldp_frame') = Len(lldp_frame) - (2 + handed'[Len(handed')].length)
               \/ lldp_frame' = <<>>

\* C11: LLDP.decode terminates, by returning or by raising, on every frame:
\* each iteration of the walk strictly shrinks the remaining payload, by 2 +
\* the declared length or to empty, also when the declared length is 0; the
\* loop runs at most ceil(len(payload)/2) times and returns exactly when no
\* bytes remain; a zero-length payload runs no iteration and gives no record
\* and no error.
C11_WalkTerminates ==
    /\ []WalkBounded
    /\ [][WalkShrinks]_vars

\* a payload of three TLVs of declared length 0 was walked in three
\* iterations, len(payload) / 2 of them, and the call returned
C11_Witness ==
    /\ pc = "done"
    /\ outcome = Returned("end")
    /\ Len(PayloadOf(data)) = 6
    /\ Len(handed) = 3
    /\ \A i \in 1..3 : handed[i].length = 0
    /\ lldp_frame = <<>>

====
